---- MODULE Spec2Model ----
(***************************************************************************)
(* Model of modules/vectra.py: the VectraClient REST wrapper.              *)
(*                                                                         *)
(* The HTTP layer (the requests library and the server behind it) is the   *)
(* environment: every request the client issues is appended to a transport *)
(* log together with the outcome the environment chose for it (a response  *)
(* with a status code and a body, or a requests.ConnectionError).          *)
(* One action models one whole call of a public method, decorators         *)
(* included.                                                               *)
(***************************************************************************)
EXTENDS Integers, Sequences, FiniteSets, TLC

VARIABLES client, last, reqs, warns, gen

vars == <<client, last, reqs, warns, gen>>

(***************************************************************************)
(* Bounds of the model                                                     *)
(***************************************************************************)
\* largest number of keyword arguments passed to a list/get call
MaxArgs == 2
\* longest tag list (the caller's, and the one the server stores)
MaxTags == 2
\* longest scripted chain of pages behind a pagination helper
MaxPages == 3

(***************************************************************************)
(* Python values                                                           *)
(***************************************************************************)
\* Python's None
None == "None"

\* values Python treats as false in `if x` / `not x`
Falsy == {None, ""}

Truthy(x) == x \notin Falsy

\* an empty dict
EmptyMap == [k \in {} |-> None]

\* dict.update(): entries of u override those of d
Update(d, u) ==
    [k \in (DOMAIN d) \union (DOMAIN u) |-> IF k \in DOMAIN u THEN u[k] ELSE d[k]]

\* str.strip() on the token strings of the model
Strip(s) ==
    CASE s = " tok " -> "tok"
      [] OTHER       -> s

\* an exception: its Python type, its message, and for Exception(status, content)
\* the two arguments
Exc(type, msg, status, content) ==
    [type |-> type, msg |-> msg, status |-> status, content |-> content]

NoExc == Exc("none", "", 0, "")

Raised(e) == e.type # "none"

(***************************************************************************)
(* Inputs                                                                  *)
(***************************************************************************)
Urls == {"https://brain"}

Tokens == {None, "", "tok", " tok "}

Users == {None, "admin"}

Passwords == {None, "", "secret"}

\* keyword names a caller passes to the list/get operations: one recognized and
\* deprecated for both resources, one recognized for both, one recognized (and
\* deprecated) by detections only, one unknown to both
ParamKeys == {"c_score", "state", "category", "bogus"}

\* "0" stands for a value that is false in Python without being None
ParamValues == {None, "0"}

ArgMaps ==
    UNION {[D -> ParamValues] : D \in {S \in SUBSET ParamKeys : Cardinality(S) <= MaxArgs}}

Ids == {None, "7"}

TagNames == {"a", "b", "c"}

TagLists == UNION {[1..n -> TagNames] : n \in 0..MaxTags}

(***************************************************************************)
(* The transport: what the environment answers to one request              *)
(***************************************************************************)
Statuses == {200, 201, 404}

Bodies == {"raw_a", "raw_b"}

ConnectionError == [kind |-> "ConnectionError", status_code |-> 0, content |-> "", json |-> EmptyMap]

Response(status, content, json) ==
    [kind |-> "response", status_code |-> status, content |-> content, json |-> json]

\* answers to a request whose JSON body, when it succeeds, is one of `jsons`
Answers(jsons) ==
    {ConnectionError}
        \union {Response(s, "json", j) : s \in {200, 201}, j \in jsons}
        \union {Response(s, b, EmptyMap) : s \in Statuses \ {200, 201}, b \in Bodies}

\* one entry of the transport log: the request as issued and the answer it got
Request(method, url, auth, headers, basic, params, data, verify, answer) ==
    [method |-> method, url |-> url, auth |-> auth, headers |-> headers,
     basic |-> basic, params |-> params, data |-> data, verify |-> verify,
     answer |-> answer]

(***************************************************************************)
(* Warnings                                                                *)
(***************************************************************************)
\* deprecation(message)
deprecation(message) ==
    [category |-> "PendingDeprecationWarning", message |-> message]

\* param_deprecation(key): the message names the key
param_deprecation(key) ==
    [category |-> "PendingDeprecationWarning",
     message |-> <<key, " will be deprecated with Vectra API v1">>]

(***************************************************************************)
(* The result of running a method body: the requests it issued, what it    *)
(* raised or returned, the client's header mapping afterwards, and the     *)
(* warnings it emitted                                                     *)
(***************************************************************************)
Result(rq, exc, ret, headers, ws) ==
    [reqs |-> rq, exc |-> exc, ret |-> ret, headers |-> headers, warns |-> ws]

\* returned value of a call that returned nothing (or raised)
NoValue == [kind |-> "none"]

(***************************************************************************)
(* VectraClient.__init__                                                   *)
(***************************************************************************)
NoClient ==
    [exists |-> FALSE, url |-> <<>>, version |-> 0, verify |-> FALSE,
     attrs |-> {}, headers |-> EmptyMap, auth |-> <<>>]

\* the object __init__ builds, with the exception it raises (if any) and the
\* warnings it emits
init_client_bad(url, token, user, password, verify) ==
    LET version == IF Truthy(token) THEN 2 ELSE 1 IN
    IF Truthy(user) /\ Truthy(password)
    THEN [obj |-> [exists |-> TRUE, url |-> <<url, "/api">>, version |-> 1,
                   verify |-> verify, attrs |-> {"auth"}, headers |-> EmptyMap,
                   auth |-> <<user, password>>],
          exc |-> NoExc,
          warns |-> <<deprecation("Deprecation of the Vectra API v1")>>]
    ELSE IF Truthy(token)
    THEN [obj |-> [exists |-> TRUE, url |-> <<url, "/api/v2">>, version |-> version,
                   verify |-> verify, attrs |-> {"headers"},
                   headers |-> [Authorization |-> <<"Token ", Strip(token)>>],
                   auth |-> <<>>],
          exc |-> NoExc,
          warns |-> <<>>]
    ELSE [obj |-> NoClient,
          exc |-> Exc("RuntimeError", "At least one form of authentication is required", 0, ""),
          warns |-> <<>>]

init_client(url, token, user, password, verify) ==
    LET version == IF Truthy(token) THEN 2 ELSE 1 IN
    IF Truthy(token)
    THEN [obj |-> [exists |-> TRUE, url |-> <<url, "/api/v2">>, version |-> version,
                   verify |-> verify, attrs |-> {"headers"},
                   headers |-> [Authorization |-> <<"Token ", Strip(token)>>],
                   auth |-> <<>>],
          exc |-> NoExc,
          warns |-> <<>>]
    ELSE IF Truthy(user) /\ Truthy(password)
    THEN [obj |-> [exists |-> TRUE, url |-> <<url, "/api">>, version |-> version,
                   verify |-> verify, attrs |-> {"auth"}, headers |-> EmptyMap,
                   auth |-> <<user, password>>],
          exc |-> NoExc,
          warns |-> <<deprecation("Deprecation of the Vectra API v1")>>]
    ELSE [obj |-> NoClient,
          exc |-> Exc("RuntimeError", "At least one form of authentication is required", 0, ""),
          warns |-> <<>>]

(***************************************************************************)
(* Parameter filters                                                       *)
(***************************************************************************)
HostValidKeys ==
    {"active_traffic", "c_score", "c_score_gte", "certainty", "certainty_gte", "fields",
     "has_active_traffic", "include_detection_summaries", "is_key_asset",
     "is_targeting_key_asset", "key_asset", "last_source", "mac_address", "name",
     "ordering", "page", "page_size", "state", "t_score", "t_score_gte", "tags",
     "threat", "threat_gte", "targets_key_asset"}

HostDeprecatedKeys ==
    {"c_score", "c_score_gte", "key_asset", "t_score", "t_score_gte", "targets_key_asset"}

DetectionValidKeys ==
    {"c_score", "c_score_gte", "category", "certainty", "certainty_gte", "detection",
     "detection_type", "detection_category", "fields", "host_id",
     "is_targeting_key_asset", "is_triaged", "ordering", "page", "page_size", "src_ip",
     "state", "t_score", "t_score_gte", "tags", "targets_key_asset", "threat",
     "threat_gte"}

DetectionDeprecatedKeys ==
    {"c_score", "c_score_gte", "category", "t_score", "t_score_gte", "targets_key_asset"}

\* the loop `for k, v in args.items()` of both filters, over the keys still to
\* visit; the order in which a dict hands out its items is fixed here by CHOOSE
RECURSIVE FilterLoop(_, _, _, _, _, _)
FilterLoop(args, keys, valid, deprecated, params, ws) ==
    IF keys = {} THEN [params |-> params, warns |-> ws]
    ELSE LET k == CHOOSE x \in keys : TRUE
             v == args[k]
             p == IF k \in valid /\ v # None THEN Update(params, [x \in {k} |-> v])
                  ELSE params
             w == IF k \in deprecated THEN Append(ws, param_deprecation(k)) ELSE ws
         IN FilterLoop(args, keys \ {k}, valid, deprecated, p, w)

\* a filter that forwards None values too
generate_host_params_bad(args) ==
    [params |-> [k \in (DOMAIN args) \cap HostValidKeys |-> args[k]],
     warns |-> FilterLoop(args, DOMAIN args, HostValidKeys, HostDeprecatedKeys,
                          EmptyMap, <<>>).warns]

\* _generate_host_params(args): the params dict, and the warnings emitted
generate_host_params(args) ==
    FilterLoop(args, DOMAIN args, HostValidKeys, HostDeprecatedKeys, EmptyMap, <<>>)

\* a filter that announces a deprecated key only when it forwards it
generate_detection_params_bad(args) ==
    FilterLoop([k \in {x \in DOMAIN args : args[x] # None} |-> args[k]],
               {x \in DOMAIN args : args[x] # None},
               DetectionValidKeys, DetectionDeprecatedKeys, EmptyMap, <<>>)

\* _generate_detection_params(args)
generate_detection_params(args) ==
    FilterLoop(args, DOMAIN args, DetectionValidKeys, DetectionDeprecatedKeys,
               EmptyMap, <<>>)

(***************************************************************************)
(* Decorators                                                              *)
(***************************************************************************)
\* a handler that lets every status through
request_error_handler_bad(r) == r

\* request_error_handler: r is what the wrapped function did
request_error_handler(r) ==
    IF Raised(r.exc) THEN r
    ELSE IF r.ret.status_code \in {200, 201} THEN r
    ELSE [r EXCEPT !.exc = Exc("Exception", "", r.ret.status_code, r.ret.content),
                   !.ret = NoValue]

\* a gate that lets version 1 through
validate_api_v2_bad(c, r) == r

\* validate_api_v2: r is what the wrapped function does when it is run
validate_api_v2(c, r) ==
    IF c.version = 2 THEN r
    ELSE Result(<<>>, Exc("NotImplementedError", "Method only accessible via v2 of API", 0, ""),
                NoValue, c.headers, <<>>)

(***************************************************************************)
(* One HTTP request                                                        *)
(***************************************************************************)
NoData == [kind |-> "none"]

\* requests.get/post/patch/delete(...): the request is issued and either the
\* transport raises or the response comes back
Send(req, headers, ws) ==
    IF req.answer.kind = "ConnectionError"
    THEN Result(<<req>>, Exc("requests.ConnectionError", "", 0, ""), NoValue, headers, ws)
    ELSE Result(<<req>>, NoExc, req.answer, headers, ws)

\* a request authenticated by the client's header mapping
WithHeaders(c, method, path, headers, params, data, verify, t) ==
    Request(method, c.url \o path, "headers", headers, <<>>, params, data, verify, t)

\* a request authenticated by basic auth
WithAuth(c, method, path, params, verify, t) ==
    Request(method, c.url \o path, "basic", EmptyMap, c.auth, params, NoData, verify, t)

\* a raise before any request
Raise(c, exc, ws) == Result(<<>>, exc, NoValue, c.headers, ws)

\* str(x) of an id put into a URL by str.format
Str(x) == x

(***************************************************************************)
(* Hosts                                                                   *)
(***************************************************************************)
get_hosts_func(c, kwargs, t) ==
    LET g == generate_host_params(kwargs) IN
    IF c.version = 2
    THEN Send(WithHeaders(c, "GET", <<"/hosts">>, c.headers, g.params, NoData, c.verify, t),
              c.headers, g.warns)
    ELSE Send(WithAuth(c, "GET", <<"/hosts">>, g.params, c.verify, t), c.headers, g.warns)

get_hosts_call(c, kwargs, t) == request_error_handler(get_hosts_func(c, kwargs, t))

get_host_by_id_func(c, host_id, kwargs, t) ==
    IF ~Truthy(host_id) THEN Raise(c, Exc("Exception", "Host id required", 0, ""), <<>>)
    ELSE LET g == generate_host_params(kwargs) IN
         IF c.version = 2
         THEN Send(WithHeaders(c, "GET", <<"/hosts", "/", Str(host_id)>>, c.headers,
                               g.params, NoData, c.verify, t),
                   c.headers, g.warns)
         ELSE Send(WithAuth(c, "GET", <<"/hosts", "/", Str(host_id)>>, g.params, c.verify, t),
                   c.headers, g.warns)

get_host_by_id_call(c, host_id, kwargs, t) ==
    request_error_handler(get_host_by_id_func(c, host_id, kwargs, t))

\* a set_key_asset that adds its header to a copy of the stored mapping
set_key_asset_func_bad(c, host_id, set, t) ==
    IF ~Truthy(host_id) THEN Raise(c, Exc("ValueError", "Host id required", 0, ""), <<>>)
    ELSE LET headers == Update(c.headers,
                               [x \in {"Content-Type"} |-> "application/x-www-form-urlencoded"])
             payload == IF set THEN "key_asset=True" ELSE "key_asset=False"
         IN Send(WithHeaders(c, "PATCH", <<"/hosts", "/", Str(host_id)>>, headers, EmptyMap,
                             [kind |-> "form", value |-> payload], c.verify, t),
                 c.headers, <<>>)

set_key_asset_func(c, host_id, set, t) ==
    IF ~Truthy(host_id) THEN Raise(c, Exc("ValueError", "Host id required", 0, ""), <<>>)
    ELSE LET headers == Update(c.headers,
                               [x \in {"Content-Type"} |-> "application/x-www-form-urlencoded"])
             payload == IF set THEN "key_asset=True" ELSE "key_asset=False"
         IN Send(WithHeaders(c, "PATCH", <<"/hosts", "/", Str(host_id)>>, headers, EmptyMap,
                             [kind |-> "form", value |-> payload], c.verify, t),
                 headers, <<>>)

set_key_asset_call(c, host_id, set, t) ==
    validate_api_v2(c, request_error_handler(set_key_asset_func(c, host_id, set, t)))

get_host_tags_func(c, host_id, t) ==
    Send(WithHeaders(c, "GET", <<"/tagging/host", "/", Str(host_id)>>, c.headers, EmptyMap,
                     NoData, FALSE, t),
         c.headers, <<>>)

get_host_tags_call(c, host_id, t) ==
    validate_api_v2(c, request_error_handler(get_host_tags_func(c, host_id, t)))

\* the caller's `tags` argument: a list, or a value of another type
TagArgs ==
    {[type |-> "list", items |-> l] : l \in TagLists}
        \union {[type |-> "str", items |-> <<"a">>]}

\* the body of a tagging GET: {"tags": [...]}, or a body without that key
TagJsons == {[tags |-> l] : l \in TagLists} \union {[status |-> "x"]}

\* json.dumps(payload)
JsonDumps(payload) == [kind |-> "json.dumps", value |-> payload]

\* a merge that drops the tags already stored
MergeTags_bad(current_list, tags) == tags

\* current_list + tags
MergeTags(current_list, tags) == current_list \o tags

\* the part of set_host_tags / set_detection_tags after the payload is built
SendTags(c, path, payload, t) ==
    LET headers == Update(c.headers,
                          [x \in {"Content-Type", "Cache-Control"} |->
                              IF x = "Content-Type" THEN "application/json" ELSE "no-cache"])
    IN Send(WithHeaders(c, "PATCH", path, headers, EmptyMap,
                        JsonDumps([tags |-> payload]), c.verify, t),
            headers, <<>>)

\* set_host_tags / set_detection_tags; `got` is what the GET of the current
\* tags does when it is run
SetTags(c, path, tags, append, got, t2) ==
    IF append /\ tags.type = "list"
    THEN IF Raised(got.exc) THEN Result(got.reqs, got.exc, NoValue, c.headers, <<>>)
         ELSE IF "tags" \notin DOMAIN got.ret.json
         THEN Result(got.reqs, Exc("KeyError", "tags", 0, ""), NoValue, c.headers, <<>>)
         ELSE LET r == SendTags(c, path, MergeTags(got.ret.json["tags"], tags.items), t2)
              IN [r EXCEPT !.reqs = got.reqs \o r.reqs]
    ELSE IF tags.type = "list"
    THEN SendTags(c, path, tags.items, t2)
    ELSE Raise(c, Exc("TypeError", "tags must be of type list", 0, ""), <<>>)

set_host_tags_func(c, host_id, tags, append, t1, t2) ==
    SetTags(c, <<"/tagging/host", "/", Str(host_id)>>, tags, append,
            get_host_tags_call(c, host_id, t1), t2)

set_host_tags_call(c, host_id, tags, append, t1, t2) ==
    validate_api_v2(c, request_error_handler(set_host_tags_func(c, host_id, tags, append, t1, t2)))

(***************************************************************************)
(* Detections                                                              *)
(***************************************************************************)
get_detections_func(c, kwargs, t) ==
    LET g == generate_detection_params(kwargs) IN
    IF c.version = 2
    THEN Send(WithHeaders(c, "GET", <<"/detections">>, c.headers, g.params, NoData,
                          c.verify, t),
              c.headers, g.warns)
    ELSE Send(WithAuth(c, "GET", <<"/detections">>, g.params, c.verify, t),
              c.headers, g.warns)

get_detections_call(c, kwargs, t) ==
    request_error_handler(get_detections_func(c, kwargs, t))

get_detection_by_id_func(c, detection_id, kwargs, t) ==
    IF ~Truthy(detection_id)
    THEN Raise(c, Exc("Exception", "Detection id required", 0, ""), <<>>)
    ELSE LET g == generate_detection_params(kwargs) IN
         IF c.version = 2
         THEN Send(WithHeaders(c, "GET", <<"/detections", "/", Str(detection_id)>>,
                               c.headers, g.params, NoData, c.verify, t),
                   c.headers, g.warns)
         ELSE Send(WithAuth(c, "GET", <<"/detections", "/", Str(detection_id)>>, g.params,
                            c.verify, t),
                   c.headers, g.warns)

get_detection_by_id_call(c, detection_id, kwargs, t) ==
    request_error_handler(get_detection_by_id_func(c, detection_id, kwargs, t))

get_detection_tags_func(c, detection_id, t) ==
    Send(WithHeaders(c, "GET", <<"/tagging/detection", "/", Str(detection_id)>>, c.headers,
                     EmptyMap, NoData, FALSE, t),
         c.headers, <<>>)

get_detection_tags_call(c, detection_id, t) ==
    validate_api_v2(c, request_error_handler(get_detection_tags_func(c, detection_id, t)))

set_detection_tags_func(c, detection_id, tags, append, t1, t2) ==
    SetTags(c, <<"/tagging/detection", "/", Str(detection_id)>>, tags, append,
            get_detection_tags_call(c, detection_id, t1), t2)

set_detection_tags_call(c, detection_id, tags, append, t1, t2) ==
    validate_api_v2(c, request_error_handler(
        set_detection_tags_func(c, detection_id, tags, append, t1, t2)))

(***************************************************************************)
(* Proxies                                                                 *)
(***************************************************************************)
\* the body of GET /proxies/{id}: {"proxies": {"ip": ...}}, or a body without
\* that key
ProxyJsons == {[proxies |-> [ip |-> "10.0.0.9"]], [status |-> "x"]}

Addresses == {None, "10.0.0.1"}

JsonBody(payload) == [kind |-> "json", value |-> payload]

get_proxies_func(c, proxy_id, t) ==
    IF Truthy(proxy_id)
    THEN Send(WithHeaders(c, "GET", <<"/proxies", "/", Str(proxy_id)>>, c.headers, EmptyMap,
                          NoData, c.verify, t),
              c.headers, <<>>)
    ELSE Send(WithHeaders(c, "GET", <<"/proxies">>, c.headers, EmptyMap, NoData, c.verify, t),
              c.headers, <<>>)

get_proxies_call(c, proxy_id, t) ==
    validate_api_v2(c, request_error_handler(get_proxies_func(c, proxy_id, t)))

add_proxy_func(c, host, enable, t) ==
    LET headers == Update(c.headers, [x \in {"Content-Type"} |-> "application/json"])
        payload == [proxy |-> [address |-> host, considerProxy |-> enable]]
    IN Send(WithHeaders(c, "POST", <<"/proxies">>, headers, EmptyMap, JsonBody(payload),
                        c.verify, t),
            headers, <<>>)

add_proxy_call(c, host, enable, t) ==
    validate_api_v2(c, request_error_handler(add_proxy_func(c, host, enable, t)))

update_proxy_func(c, proxy_id, address, enable, t1, t2) ==
    LET headers == Update(c.headers, [x \in {"Content-Type"} |-> "application/json"])
        c2 == [c EXCEPT !.headers = headers]
        got == get_proxies_call(c2, proxy_id, t1)
    IN IF Raised(got.exc) THEN Result(got.reqs, got.exc, NoValue, headers, <<>>)
       ELSE IF "proxies" \notin DOMAIN got.ret.json
       THEN Result(got.reqs, Exc("KeyError", "proxies", 0, ""), NoValue, headers, <<>>)
       ELSE LET proxy == got.ret.json["proxies"]
                payload == [proxy |-> [address |-> IF Truthy(address) THEN address
                                                   ELSE proxy["ip"],
                                       considerProxy |-> enable]]
                r == Send(WithHeaders(c2, "PATCH", <<"/proxies", "/", Str(proxy_id)>>,
                                      headers, EmptyMap, JsonBody(payload), c.verify, t2),
                          headers, <<>>)
            IN [r EXCEPT !.reqs = got.reqs \o r.reqs]

update_proxy_call(c, proxy_id, address, enable, t1, t2) ==
    validate_api_v2(c, request_error_handler(
        update_proxy_func(c, proxy_id, address, enable, t1, t2)))

(***************************************************************************)
(* Threat feeds                                                            *)
(***************************************************************************)
create_feed_func(c, name, category, certainty, itype, duration, t) ==
    LET payload == [threatFeed |->
                       [name |-> name,
                        defaults |-> [category |-> category, certainty |-> certainty,
                                      indicatorType |-> itype, duration |-> duration]]]
        headers == Update(c.headers,
                          [x \in {"Content-Type", "Cache-Control"} |->
                              IF x = "Content-Type" THEN "application/json" ELSE "no-cache"])
    IN Send(WithHeaders(c, "POST", <<"/threatFeeds">>, headers, EmptyMap,
                        JsonDumps(payload), c.verify, t),
            headers, <<>>)

create_feed_call(c, name, category, certainty, itype, duration, t) ==
    validate_api_v2(c, request_error_handler(
        create_feed_func(c, name, category, certainty, itype, duration, t)))

delete_feed_func(c, feed_id, t) ==
    Send(WithHeaders(c, "DELETE", <<"/threatFeeds", "/", Str(feed_id)>>, c.headers, EmptyMap,
                     NoData, c.verify, t),
         c.headers, <<>>)

delete_feed_call(c, feed_id, t) ==
    validate_api_v2(c, request_error_handler(delete_feed_func(c, feed_id, t)))

get_feeds_func(c, t) ==
    Send(WithHeaders(c, "GET", <<"/threatFeeds">>, c.headers, EmptyMap, NoData, c.verify, t),
         c.headers, <<>>)

get_feeds_call(c, t) ==
    validate_api_v2(c, request_error_handler(get_feeds_func(c, t)))

\* the body of GET /threatFeeds
FeedJsons ==
    {[threatFeeds |-> <<>>],
     [threatFeeds |-> <<[name |-> "Other", id |-> "3"], [name |-> "Watchlist-A", id |-> "12"]>>],
     [status |-> "x"]}

FeedNames == {None, "watchlist-a", "missing"}

\* str.lower() on the feed names of the model
Lower(s) ==
    CASE s = "Watchlist-A" -> "watchlist-a"
      [] s = "Other"       -> "other"
      [] OTHER             -> s

\* the loop of get_feed_by_name over the feeds from position i on
RECURSIVE FeedScan(_, _, _)
FeedScan(feeds, name, i) ==
    IF i > Len(feeds) THEN [exc |-> NoExc, ret |-> [kind |-> "value", value |-> None]]
    ELSE IF name = None
    THEN [exc |-> Exc("AttributeError", "'NoneType' object has no attribute 'lower'", 0, ""),
          ret |-> NoValue]
    ELSE IF Lower(feeds[i].name) = Lower(name)
    THEN [exc |-> NoExc, ret |-> [kind |-> "value", value |-> feeds[i].id]]
    ELSE FeedScan(feeds, name, i + 1)

get_feed_by_name_func(c, name, t) ==
    LET req == WithHeaders(c, "GET", <<"/threatFeeds">>, c.headers, EmptyMap, NoData,
                           c.verify, t)
    IN IF t.kind = "ConnectionError"
       THEN Result(<<req>>, Exc("Exception", "Unable to connect to remote host", 0, ""),
                   NoValue, c.headers, <<>>)
       ELSE IF t.status_code = 200
       THEN IF "threatFeeds" \notin DOMAIN t.json
            THEN Result(<<req>>, Exc("KeyError", "threatFeeds", 0, ""), NoValue, c.headers, <<>>)
            ELSE LET f == FeedScan(t.json["threatFeeds"], name, 1)
                 IN Result(<<req>>, f.exc, f.ret, c.headers, <<>>)
       ELSE Result(<<req>>, Exc("Exception", "", t.status_code, t.content), NoValue,
                   c.headers, <<>>)

get_feed_by_name_call(c, name, t) == validate_api_v2(c, get_feed_by_name_func(c, name, t))

\* the stix_file argument: a file that can be opened, or one that cannot
StixFiles == {"feed.stix", "missing.stix"}

post_stix_file_func(c, feed_id, stix_file, t) ==
    IF stix_file = "missing.stix"
    THEN Raise(c, Exc("IOError", "No such file or directory", 0, ""), <<>>)
    ELSE Send(WithHeaders(c, "POST", <<"/threatFeeds", "/", Str(feed_id)>>, c.headers,
                          EmptyMap, [kind |-> "files", value |-> stix_file], c.verify, t),
              c.headers, <<>>)

post_stix_file_call(c, feed_id, stix_file, t) ==
    validate_api_v2(c, request_error_handler(post_stix_file_func(c, feed_id, stix_file, t)))

(***************************************************************************)
(* custom_endpoint                                                         *)
(***************************************************************************)
\* URL segments whose first character is "/"
SlashSegments ==
    {"/", "/api", "/api/v2", "/hosts", "/detections", "/tagging/host",
     "/tagging/detection", "/proxies", "/threatFeeds", "/health"}

\* str(path).startswith('/')
StartsWithSlash(path) == Len(path) > 0 /\ path[1] \in SlashSegments

custom_endpoint_func(c, path, kwargs, t) ==
    LET p == IF ~StartsWithSlash(path) THEN <<"/">> \o path ELSE path IN
    IF c.version = 2
    THEN Send(Request("GET", c.url \o p, "headers", c.headers, <<>>, kwargs, NoData,
                      c.verify, t),
              c.headers, <<>>)
    ELSE Send(Request("GET", c.url \o p, "basic", EmptyMap, c.auth, kwargs, NoData,
                      c.verify, t),
              c.headers, <<>>)

custom_endpoint_call(c, path, kwargs, t) ==
    request_error_handler(custom_endpoint_func(c, path, kwargs, t))

(***************************************************************************)
(* Pagination helpers                                                      *)
(***************************************************************************)
\* JSON null, and a cursor URL, as the value of a page's "next"
JNull == [null |-> TRUE, url |-> <<>>]

JUrl(u) == [null |-> FALSE, url |-> u]

\* `while x:` on a page's "next"
CursorTruthy(x) == ~x.null /\ x.url # <<>>

\* str.replace(old, ''): every occurrence of `old` is removed
RECURSIVE Replace(_, _)
Replace(s, old) ==
    IF Len(old) = 0 \/ Len(s) < Len(old) THEN s
    ELSE IF SubSeq(s, 1, Len(old)) = old
    THEN Replace(SubSeq(s, Len(old) + 1, Len(s)), old)
    ELSE <<s[1]>> \o Replace(Tail(s), old)

\* the base under which the server writes its cursor URLs: the URL the client
\* was given, or another name of the same server
CursorBases(c) == {c.url, <<"https://10.0.0.5">> \o Tail(c.url)}

\* page k of a scripted chain of n pages: every page but the last carries a
\* cursor; the last carries null (`tail` = "null") or no "next" key at all
Page(k, n, base, res, tail) ==
    IF k < n THEN [results |-> k, next |-> JUrl(base \o <<res, "?page">>)]
    ELSE IF tail = "null" THEN [results |-> k, next |-> JNull]
    ELSE [results |-> k]

Scripts(c, res) ==
    {[k \in 1..n |-> Page(k, n, base, res, tail)] :
        n \in 1..MaxPages, base \in CursorBases(c), tail \in {"null", "missing"}}

\* keyword arguments given to a pagination helper
GenArgMaps == {m \in ArgMaps : DOMAIN m \subseteq {"c_score"}}

NoGen ==
    [kind |-> "none", kwargs |-> EmptyMap, script |-> <<>>, pc |-> "done",
     resp |-> NoValue, handed |-> <<>>, issued |-> 0, failed |-> 0, ended |-> "none"]

\* a generator that fetches its first page when it is created
NewGenerator_bad(kind, kwargs, script) ==
    [kind |-> kind, kwargs |-> kwargs, script |-> script, pc |-> "start",
     resp |-> NoValue, handed |-> <<>>, issued |-> 1, failed |-> 0, ended |-> "none"]

\* calling get_all_hosts / get_all_detections: a generator object is made and
\* none of the function's body runs; `script` is what the server holds
NewGenerator(kind, kwargs, script) ==
    [kind |-> kind, kwargs |-> kwargs, script |-> script, pc |-> "start",
     resp |-> NoValue, handed |-> <<>>, issued |-> 0, failed |-> 0, ended |-> "none"]

\* what the transport may answer to the next request of generator g
PageAnswers(g) ==
    {ConnectionError}
        \union {Response(s, b, EmptyMap) : s \in Statuses \ {200, 201}, b \in Bodies}
        \union (IF g.issued < Len(g.script)
                THEN {Response(s, "json", g.script[g.issued + 1]) : s \in {200, 201}}
                ELSE {})

\* the generator stops: by returning (StopIteration) or by an exception
Stop(g, exc, rq) ==
    [gen |-> [g EXCEPT !.pc = "done", !.ended = exc.type,
                       !.issued = g.issued + Len(rq),
                       !.failed = g.failed + Len(rq)],
     res |-> Result(rq, exc, NoValue, EmptyMap, <<>>)]

\* `yield resp`: the element is handed to the consumer
Yield(g, elem, r) ==
    [gen |-> [g EXCEPT !.pc = "yielded", !.resp = elem,
                       !.handed = Append(g.handed, elem),
                       !.issued = g.issued + Len(r.reqs)],
     res |-> [r EXCEPT !.ret = elem]]

\* resp.json() of a fetched page: the decoded body
Json(response) == [type |-> "dict", json |-> response.json]

\* the element as get_all_hosts keeps it: the response object
AsResponse(response) == [type |-> "response", json |-> response.json]

\* one next() on the generator: the body runs up to the next yield
GenStep(c, g, t) ==
    IF g.pc = "start"
    THEN LET r == IF g.kind = "hosts" THEN get_hosts_call(c, g.kwargs, t)
                  ELSE get_detections_call(c, g.kwargs, t)
         IN IF Raised(r.exc) THEN [Stop(g, r.exc, r.reqs) EXCEPT !.res.warns = r.warns]
            ELSE Yield(g, AsResponse(r.ret), r)
    ELSE IF g.pc = "yielded"
    THEN IF g.resp.type # "response"
         THEN Stop(g, Exc("AttributeError", "'dict' object has no attribute 'json'", 0, ""),
                   <<>>)
         ELSE IF "next" \notin DOMAIN g.resp.json
         THEN Stop(g, Exc("KeyError", "next", 0, ""), <<>>)
         ELSE IF ~CursorTruthy(g.resp.json["next"])
         THEN Stop(g, Exc("StopIteration", "", 0, ""), <<>>)
         ELSE LET url == g.resp.json["next"].url
                  path == Replace(url, c.url)
                  r == custom_endpoint_call(c, path, EmptyMap, t)
              IN IF Raised(r.exc) THEN Stop(g, r.exc, r.reqs)
                 ELSE IF g.kind = "hosts" THEN Yield(g, AsResponse(r.ret), r)
                 ELSE Yield(g, Json(r.ret), r)
    ELSE [gen |-> g, res |-> Result(<<>>, Exc("StopIteration", "", 0, ""), NoValue,
                                    EmptyMap, <<>>)]

(***************************************************************************)
(* State                                                                   *)
(***************************************************************************)
NoCall == [op |-> "none", args |-> EmptyMap, exc |-> NoExc, ret |-> NoValue]

Init ==
    /\ client = NoClient
    /\ last = NoCall
    /\ reqs = <<>>
    /\ warns = <<>>
    /\ gen = NoGen

\* The transport log, the captured warnings and the outcome in `last` are
\* those of one call: the caller takes them before it makes the next call.
Idle == last.op = "none"

Return ==
    /\ ~Idle
    /\ last' = NoCall
    /\ reqs' = <<>>
    /\ warns' = <<>>
    /\ UNCHANGED <<client, gen>>

\* VectraClient(url, token, user, password, verify)
Construct ==
    /\ Idle
    /\ ~client.exists
    /\ \E url \in Urls, token \in Tokens, user \in Users, password \in Passwords,
          verify \in BOOLEAN :
          LET r == init_client(url, token, user, password, verify) IN
          /\ client' = r.obj
          /\ last' = [op |-> "__init__",
                      args |-> [url |-> url, token |-> token, user |-> user,
                                password |-> password, verify |-> verify],
                      exc |-> r.exc, ret |-> NoValue]
          /\ reqs' = <<>>
          /\ warns' = r.warns
    /\ UNCHANGED gen

\* a call of a method of the client: r is what the call did
Call(op, args, r) ==
    /\ client' = [client EXCEPT !.headers = r.headers]
    /\ last' = [op |-> op, args |-> args, exc |-> r.exc, ret |-> r.ret]
    /\ reqs' = r.reqs
    /\ warns' = r.warns
    /\ UNCHANGED gen

Plain == Answers({EmptyMap})

get_hosts ==
    /\ Idle
    /\ client.exists
    /\ \E kwargs \in ArgMaps, t \in Plain :
          Call("get_hosts", [kwargs |-> kwargs], get_hosts_call(client, kwargs, t))

get_host_by_id ==
    /\ Idle
    /\ client.exists
    /\ \E host_id \in Ids, kwargs \in ArgMaps, t \in Plain :
          Call("get_host_by_id", [host_id |-> host_id, kwargs |-> kwargs],
               get_host_by_id_call(client, host_id, kwargs, t))

set_key_asset ==
    /\ Idle
    /\ client.exists
    /\ \E host_id \in Ids, set \in BOOLEAN, t \in Plain :
          Call("set_key_asset", [host_id |-> host_id, set |-> set],
               set_key_asset_call(client, host_id, set, t))

get_host_tags ==
    /\ Idle
    /\ client.exists
    /\ \E host_id \in Ids \ {None}, t \in Answers(TagJsons) :
          Call("get_host_tags", [host_id |-> host_id],
               get_host_tags_call(client, host_id, t))

set_host_tags ==
    /\ Idle
    /\ client.exists
    /\ \E host_id \in Ids \ {None}, tags \in TagArgs, append \in BOOLEAN,
          t1 \in Answers(TagJsons), t2 \in Plain :
          Call("set_host_tags", [host_id |-> host_id, tags |-> tags, append |-> append],
               set_host_tags_call(client, host_id, tags, append, t1, t2))

get_detections ==
    /\ Idle
    /\ client.exists
    /\ \E kwargs \in ArgMaps, t \in Plain :
          Call("get_detections", [kwargs |-> kwargs],
               get_detections_call(client, kwargs, t))

get_detection_by_id ==
    /\ Idle
    /\ client.exists
    /\ \E detection_id \in Ids, kwargs \in ArgMaps, t \in Plain :
          Call("get_detection_by_id", [detection_id |-> detection_id, kwargs |-> kwargs],
               get_detection_by_id_call(client, detection_id, kwargs, t))

get_detection_tags ==
    /\ Idle
    /\ client.exists
    /\ \E detection_id \in Ids \ {None}, t \in Answers(TagJsons) :
          Call("get_detection_tags", [detection_id |-> detection_id],
               get_detection_tags_call(client, detection_id, t))

set_detection_tags ==
    /\ Idle
    /\ client.exists
    /\ \E detection_id \in Ids \ {None}, tags \in TagArgs, append \in BOOLEAN,
          t1 \in Answers(TagJsons), t2 \in Plain :
          Call("set_detection_tags",
               [detection_id |-> detection_id, tags |-> tags, append |-> append],
               set_detection_tags_call(client, detection_id, tags, append, t1, t2))

get_proxies ==
    /\ Idle
    /\ client.exists
    /\ \E proxy_id \in Ids, t \in Plain :
          Call("get_proxies", [proxy_id |-> proxy_id],
               get_proxies_call(client, proxy_id, t))

add_proxy ==
    /\ Idle
    /\ client.exists
    /\ \E host \in Addresses, enable \in BOOLEAN, t \in Plain :
          Call("add_proxy", [host |-> host, enable |-> enable],
               add_proxy_call(client, host, enable, t))

update_proxy ==
    /\ Idle
    /\ client.exists
    /\ \E proxy_id \in Ids \ {None}, address \in Addresses, enable \in BOOLEAN,
          t1 \in Answers(ProxyJsons), t2 \in Plain :
          Call("update_proxy",
               [proxy_id |-> proxy_id, address |-> address, enable |-> enable],
               update_proxy_call(client, proxy_id, address, enable, t1, t2))

create_feed ==
    /\ Idle
    /\ client.exists
    /\ \E name \in {"Watchlist-A"}, t \in Plain :
          Call("create_feed", [name |-> name],
               create_feed_call(client, name, "cnc", "High", "Watchlist", "7", t))

delete_feed ==
    /\ Idle
    /\ client.exists
    /\ \E feed_id \in Ids \ {None}, t \in Plain :
          Call("delete_feed", [feed_id |-> feed_id], delete_feed_call(client, feed_id, t))

get_feeds ==
    /\ Idle
    /\ client.exists
    /\ \E t \in Plain : Call("get_feeds", EmptyMap, get_feeds_call(client, t))

get_feed_by_name ==
    /\ Idle
    /\ client.exists
    /\ \E name \in FeedNames, t \in Answers(FeedJsons) :
          Call("get_feed_by_name", [name |-> name], get_feed_by_name_call(client, name, t))

post_stix_file ==
    /\ Idle
    /\ client.exists
    /\ \E feed_id \in Ids \ {None}, stix_file \in StixFiles, t \in Plain :
          Call("post_stix_file", [feed_id |-> feed_id, stix_file |-> stix_file],
               post_stix_file_call(client, feed_id, stix_file, t))

Paths == {<<"/health">>, <<"health">>}

custom_endpoint ==
    /\ Idle
    /\ client.exists
    /\ \E path \in Paths, kwargs \in GenArgMaps, t \in Plain :
          Call("custom_endpoint", [path |-> path, kwargs |-> kwargs],
               custom_endpoint_call(client, path, kwargs, t))

\* get_all_hosts(**kwargs): the generator is created
get_all_hosts ==
    /\ Idle
    /\ client.exists
    /\ \E kwargs \in GenArgMaps, script \in Scripts(client, "/hosts") :
          /\ gen' = NewGenerator("hosts", kwargs, script)
          /\ last' = [op |-> "get_all_hosts", args |-> [kwargs |-> kwargs],
                      exc |-> NoExc, ret |-> NoValue]
    /\ reqs' = <<>>
    /\ warns' = <<>>
    /\ UNCHANGED client

\* get_all_detections(**kwargs): the generator is created
get_all_detections ==
    /\ Idle
    /\ client.exists
    /\ \E kwargs \in GenArgMaps, script \in Scripts(client, "/detections") :
          /\ gen' = NewGenerator("detections", kwargs, script)
          /\ last' = [op |-> "get_all_detections", args |-> [kwargs |-> kwargs],
                      exc |-> NoExc, ret |-> NoValue]
    /\ reqs' = <<>>
    /\ warns' = <<>>
    /\ UNCHANGED client

\* next() on the generator
GenNext ==
    /\ Idle
    /\ client.exists
    /\ gen.kind # "none"
    /\ \E t \in PageAnswers(gen) :
          LET s == GenStep(client, gen, t) IN
          /\ gen' = s.gen
          /\ last' = [op |-> "next", args |-> EmptyMap, exc |-> s.res.exc,
                      ret |-> s.res.ret]
          /\ reqs' = s.res.reqs
          /\ warns' = s.res.warns
    /\ UNCHANGED client

Next ==
    \/ Construct
    \/ get_hosts
    \/ get_host_by_id
    \/ set_key_asset
    \/ get_host_tags
    \/ set_host_tags
    \/ get_detections
    \/ get_detection_by_id
    \/ get_detection_tags
    \/ set_detection_tags
    \/ get_proxies
    \/ add_proxy
    \/ update_proxy
    \/ create_feed
    \/ delete_feed
    \/ get_feeds
    \/ get_feed_by_name
    \/ post_stix_file
    \/ custom_endpoint
    \/ Return

\* the client's direct operations
Spec == Init /\ [][Next]_vars

NextPaging ==
    \/ Construct
    \/ get_all_hosts
    \/ get_all_detections
    \/ GenNext
    \/ Return

\* the pagination helpers and their consumer
SpecPaging == Init /\ [][NextPaging]_vars

(***************************************************************************)
(* Properties                                                              *)
(***************************************************************************)
V2OnlyOps ==
    {"set_key_asset", "get_host_tags", "set_host_tags", "get_detection_tags",
     "set_detection_tags", "get_proxies", "add_proxy", "update_proxy", "create_feed",
     "delete_feed", "get_feeds", "get_feed_by_name", "post_stix_file"}

\* the answer to request i of the call is an HTTP response with a status other
\* than 200 and 201
FailedStatus(i) ==
    /\ reqs[i].answer.kind = "response"
    /\ reqs[i].answer.status_code \notin {200, 201}

IsPrefix(p, s) == Len(p) <= Len(s) /\ SubSeq(s, 1, Len(p)) = p

\* C1: a v2-only operation called on a version-1 client, whatever its arguments,
\* raises the unsupported-version error (NotImplementedError), issues no HTTP
\* request, and leaves the client without a header mapping: the version check
\* comes before argument validation and header mutation.
C1_VersionGate ==
    (client.exists /\ client.version = 1 /\ last.op \in V2OnlyOps)
        => /\ last.exc = Exc("NotImplementedError", "Method only accessible via v2 of API", 0, "")
           /\ reqs = <<>>
           /\ client.headers = EmptyMap
           /\ client.attrs = {"auth"}

\* C1 witness: set_key_asset without a host id (an argument the method itself
\* rejects) was called on a version-1 client and was stopped by the gate.
C1_Witness ==
    /\ client.version = 1
    /\ last.op = "set_key_asset"
    /\ last.args.host_id = None
    /\ last.exc.type = "NotImplementedError"
    /\ reqs = <<>>

\* C2: construction resolves the authentication mode. A token (a non-empty one:
\* Python's `if token`) gives version 2, an Authorization header bearing the
\* token and no basic-auth credentials, also when user and password are given;
\* otherwise user and password give version 1 with basic-auth credentials and
\* one deprecation notice; otherwise construction raises the configuration
\* error (RuntimeError) and there is no client.
C2_Construction ==
    last.op = "__init__" =>
        LET a == last.args IN
        IF Truthy(a.token)
        THEN /\ client.exists /\ client.version = 2
             /\ client.url = <<a.url, "/api/v2">>
             /\ client.attrs = {"headers"}
             /\ DOMAIN client.headers = {"Authorization"}
             /\ client.headers["Authorization"] = <<"Token ", Strip(a.token)>>
             /\ client.verify = a.verify
             /\ last.exc = NoExc
             /\ warns = <<>>
        ELSE IF Truthy(a.user) /\ Truthy(a.password)
        THEN /\ client.exists /\ client.version = 1
             /\ client.url = <<a.url, "/api">>
             /\ client.attrs = {"auth"}
             /\ client.auth = <<a.user, a.password>>
             /\ client.verify = a.verify
             /\ last.exc = NoExc
             /\ Len(warns) = 1 /\ warns[1].category = "PendingDeprecationWarning"
        ELSE /\ ~client.exists
             /\ last.exc.type = "RuntimeError"
             /\ warns = <<>>

\* C2 witness: a client built from a token together with a user and a password
\* came out as a version-2 client.
C2_Witness ==
    /\ last.op = "__init__"
    /\ last.args.token = " tok " /\ last.args.user = "admin"
    /\ last.args.password = "secret"
    /\ client.version = 2
    /\ client.headers["Authorization"] = <<"Token ", "tok">>

\* C3: a response with a status other than 200 and 201 makes the call raise
\* Exception(status, body) with that response's status and raw body, and it is
\* the last request of the call: nothing is sent after it, nothing is retried.
C3_RequestFailed ==
    \A i \in 1..Len(reqs) :
        FailedStatus(i)
            => /\ i = Len(reqs)
               /\ last.exc = Exc("Exception", "", reqs[i].answer.status_code,
                                 reqs[i].answer.content)
               /\ last.ret = NoValue

\* C3 witness: an appending set_host_tags whose GET succeeded and whose PATCH was
\* answered 404 raised with 404 and the body of that answer.
C3_Witness ==
    /\ last.op = "set_host_tags"
    /\ Len(reqs) = 2
    /\ reqs[2].answer.status_code = 404 /\ reqs[2].answer.content = "raw_b"
    /\ last.exc.status = 404 /\ last.exc.content = "raw_b"

\* the scripted chain behind the generator is the one the claim describes:
\* every page but the last carries a cursor, the last carries a null "next"
WellFormedChain(script) ==
    /\ Len(script) >= 1
    /\ \A k \in 1..Len(script) :
          /\ "next" \in DOMAIN script[k]
          /\ (k < Len(script)) = CursorTruthy(script[k]["next"])

\* the pages handed to the consumer, in the order they were handed
HandedPages == [i \in 1..Len(gen.handed) |-> gen.handed[i].json["results"]]

\* C4: over a chain of N successful pages, all but the last with a cursor, a
\* pagination helper that has stopped has handed exactly the N pages in server
\* order and has stopped by ending the sequence, not by raising.
C4_PaginationYieldsAllPages ==
    (/\ gen.kind # "none"
     /\ gen.pc = "done"
     /\ gen.failed = 0
     /\ WellFormedChain(gen.script))
        => /\ gen.ended = "StopIteration"
           /\ HandedPages = [i \in 1..Len(gen.script) |-> i]

\* C5: every request of a call is addressed under the client's versioned base
\* URL and carries the TLS-verification flag the client was constructed with.
C5_BaseUrlAndVerify ==
    \A i \in 1..Len(reqs) :
        /\ IsPrefix(client.url, reqs[i].url)
        /\ reqs[i].verify = client.verify

\* C6: a connection failure of the transport reaches the caller as the generic
\* connection error (Exception('Unable to connect to remote host')), never as
\* the transport's own exception, and no request follows it.
C6_ConnectionFailed ==
    \A i \in 1..Len(reqs) :
        reqs[i].answer.kind = "ConnectionError"
            => /\ i = Len(reqs)
               /\ last.exc = Exc("Exception", "Unable to connect to remote host", 0, "")

\* the GET of the current tags succeeded and its body holds a tag list
TagsRead(i) ==
    /\ reqs[i].answer.kind = "response"
    /\ reqs[i].answer.status_code \in {200, 201}
    /\ "tags" \in DOMAIN reqs[i].answer.json

TagPath(op, id) ==
    IF op = "set_host_tags" THEN <<"/tagging/host", "/", id>>
    ELSE <<"/tagging/detection", "/", id>>

TagId == IF last.op = "set_host_tags" THEN last.args.host_id ELSE last.args.detection_id

\* C7: set_host_tags / set_detection_tags on a v2 client with a tag list. With
\* append the first request is the GET of the current tags; when it fails no
\* PATCH is issued; otherwise the one PATCH that follows submits the stored list
\* followed by the caller's list. Without append the only request is the PATCH,
\* which submits exactly the caller's list.
C7_TagMerge ==
    (/\ last.op \in {"set_host_tags", "set_detection_tags"}
     /\ client.version = 2
     /\ last.args.tags.type = "list")
        => IF last.args.append
           THEN /\ Len(reqs) >= 1
                /\ reqs[1].method = "GET"
                /\ reqs[1].url = client.url \o TagPath(last.op, TagId)
                /\ IF TagsRead(1)
                   THEN /\ Len(reqs) = 2
                        /\ reqs[2].method = "PATCH"
                        /\ reqs[2].url = client.url \o TagPath(last.op, TagId)
                        /\ reqs[2].data =
                              JsonDumps([tags |-> reqs[1].answer.json["tags"]
                                                      \o last.args.tags.items])
                   ELSE Len(reqs) = 1
           ELSE /\ Len(reqs) = 1
                /\ reqs[1].method = "PATCH"
                /\ reqs[1].url = client.url \o TagPath(last.op, TagId)
                /\ reqs[1].data = JsonDumps([tags |-> last.args.tags.items])

\* C7 witness: stored tags [a, b], appended tags [b, c], submitted [a, b, b, c].
C7_Witness ==
    /\ last.op = "set_detection_tags"
    /\ last.args.append
    /\ last.args.tags.type = "list" /\ last.args.tags.items = <<"b", "c">>
    /\ Len(reqs) = 2
    /\ reqs[1].answer.json["tags"] = <<"a", "b">>
    /\ reqs[2].data.value["tags"] = <<"a", "b", "b", "c">>

\* the entries of m whose key is in the allow-list and whose value is not None
Kept(m, valid) == {k \in DOMAIN m : k \in valid /\ m[k] # None}

ExactlyKept(p, m, valid) ==
    /\ DOMAIN p = Kept(m, valid)
    /\ \A k \in DOMAIN p : p[k] = m[k]

\* C8: the query parameters a host (detection) list/get call sends are exactly
\* the entries of the caller's mapping whose key is in the host (detection)
\* allow-list and whose value is not None, and filtering them again returns
\* them unchanged.
C8_ParamFilter ==
    /\ (last.op \in {"get_hosts", "get_host_by_id"} /\ reqs # <<>>)
          => /\ ExactlyKept(reqs[1].params, last.args.kwargs, HostValidKeys)
             /\ generate_host_params(reqs[1].params).params = reqs[1].params
    /\ (last.op \in {"get_detections", "get_detection_by_id"} /\ reqs # <<>>)
          => /\ ExactlyKept(reqs[1].params, last.args.kwargs, DetectionValidKeys)
             /\ generate_detection_params(reqs[1].params).params = reqs[1].params

\* C8 witness: a host query whose recognized key with a None value was dropped
\* and whose recognized key with a false value other than None was kept.
C8_Witness ==
    /\ last.op = "get_hosts"
    /\ DOMAIN last.args.kwargs = {"c_score", "state"}
    /\ last.args.kwargs["c_score"] = None
    /\ last.args.kwargs["state"] = "0"
    /\ Len(reqs) = 1
    /\ DOMAIN reqs[1].params = {"state"}

\* the number of captured notices that name key k
Notices(k) ==
    Cardinality({i \in 1..Len(warns) :
                    /\ warns[i].category = "PendingDeprecationWarning"
                    /\ warns[i].message[1] = k})

DeprecatedFor(op) ==
    IF op \in {"get_hosts", "get_host_by_id"} THEN HostDeprecatedKeys
    ELSE DetectionDeprecatedKeys

\* one notice for each deprecated key passed, none for any other key
NoticePerDeprecatedKey ==
    /\ \A k \in ParamKeys :
          Notices(k) = IF k \in DOMAIN last.args.kwargs /\ k \in DeprecatedFor(last.op)
                       THEN 1 ELSE 0
    /\ Len(warns) = Cardinality(DOMAIN last.args.kwargs \cap DeprecatedFor(last.op))

\* the notices do not abort the call: its request is issued, and a 200/201
\* answer is returned to the caller
CallGoesOn ==
    /\ Len(reqs) = 1
    /\ (reqs[1].answer.kind = "response" /\ reqs[1].answer.status_code \in {200, 201})
          => (last.exc = NoExc /\ last.ret = reqs[1].answer)

ListGetOps == {"get_hosts", "get_host_by_id", "get_detections", "get_detection_by_id"}

\* C9 as stated: every call of a host or detection list/get operation emits
\* exactly one notice per deprecated key passed to it.
C9_AsStated == last.op \in ListGetOps => NoticePerDeprecatedKey

\* the id argument of a get-by-id call was given
IdGiven ==
    /\ last.op = "get_host_by_id" => Truthy(last.args.host_id)
    /\ last.op = "get_detection_by_id" => Truthy(last.args.detection_id)

\* C9 amended: every call of a host or detection list/get operation that passes
\* its id check emits exactly one notice per deprecated key passed to it,
\* forwarded or not, none for other keys, and the notice does not abort the
\* call; a get-by-id call without an id raises before the parameters are
\* looked at and emits no notice.
C9_DeprecationNotices ==
    last.op \in ListGetOps
        => IF IdGiven THEN NoticePerDeprecatedKey /\ CallGoesOn
           ELSE /\ warns = <<>> /\ reqs = <<>>
                /\ last.exc.type = "Exception"

\* C9 witness: a deprecated key passed with a None value is not forwarded and
\* is still announced once.
C9_Witness ==
    /\ last.op = "get_detection_by_id"
    /\ Truthy(last.args.detection_id)
    /\ DOMAIN last.args.kwargs = {"category", "bogus"}
    /\ last.args.kwargs["category"] = None
    /\ Len(reqs) = 1
    /\ reqs[1].params = EmptyMap
    /\ Notices("category") = 1 /\ Len(warns) = 1

\* C10 as stated: at every point the helper has issued as many requests as it
\* has handed elements to the consumer.
C10_AsStated == gen.kind # "none" => gen.issued = Len(gen.handed)

CreateOps == {"get_all_hosts", "get_all_detections"}

FirstPath == IF gen.kind = "hosts" THEN <<"/hosts">> ELSE <<"/detections">>

\* C10 amended: creating the sequence issues no request; every pull issues at
\* most one request; the requests issued equal the elements handed, plus one
\* when the sequence was ended by a fetch that failed; finding the end of the
\* sequence (or pulling from an ended sequence) issues no request; and the
\* first fetch of a newly created sequence is the first page.
C10_PullBased ==
    gen.kind # "none"
        => /\ gen.issued = Len(gen.handed) + gen.failed
           /\ gen.failed <= 1
           /\ gen.failed = 1 => gen.pc = "done"
           /\ last.op \in CreateOps
                 => (reqs = <<>> /\ gen.issued = 0 /\ gen.handed = <<>> /\ gen.pc = "start")
           /\ last.op = "next"
                 => /\ Len(reqs) <= 1
                    /\ (last.exc.type \in {"StopIteration", "KeyError", "AttributeError"}
                           => reqs = <<>>)
                    /\ (reqs # <<>> /\ gen.issued = 1)
                           => (/\ reqs[1].url = client.url \o FirstPath
                               /\ (gen.handed # <<>> => HandedPages[1] = 1))

\* C10 witness: a generator over a chain of three pages has handed two pages
\* with two requests and has not fetched the third.
C10_Witness ==
    /\ gen.kind = "hosts"
    /\ Len(gen.script) = 3
    /\ gen.pc = "yielded"
    /\ Len(gen.handed) = 2 /\ gen.issued = 2
    /\ last.op = "next" /\ Len(reqs) = 1

MutatingOps ==
    {"set_key_asset", "set_host_tags", "set_detection_tags", "add_proxy", "update_proxy",
     "create_feed"}

CallHeaders == {"Content-Type", "Cache-Control"}

\* one step of a constructed client: nothing of its configuration changes but
\* the header mapping, which only a mutating v2 operation changes, and only by
\* setting Content-Type / Cache-Control; no entry is ever removed; and every
\* request sent with the header mapping carries the stored mapping as it was
\* before the call or as the call left it
ConfigFrame ==
    client.exists
        => /\ client'.exists
           /\ client'.url = client.url
           /\ client'.version = client.version
           /\ client'.verify = client.verify
           /\ client'.auth = client.auth
           /\ client'.attrs = client.attrs
           /\ DOMAIN client.headers \subseteq DOMAIN client'.headers
           /\ \A k \in DOMAIN client.headers \ CallHeaders :
                 client'.headers[k] = client.headers[k]
           /\ DOMAIN client'.headers \ DOMAIN client.headers \subseteq CallHeaders
           /\ client'.headers # client.headers
                 => (last'.op \in MutatingOps /\ client.version = 2 /\ reqs' # <<>>)
           /\ ("Cache-Control" \in DOMAIN client.headers
                 => client'.headers["Cache-Control"] = client.headers["Cache-Control"])
           /\ ("Content-Type" \in DOMAIN client.headers /\ last'.op \notin MutatingOps
                 => client'.headers["Content-Type"] = client.headers["Content-Type"])
           /\ \A i \in 1..Len(reqs') :
                 IF client.version = 2
                 THEN /\ reqs'[i].auth = "headers"
                      /\ reqs'[i].headers \in {client.headers, client'.headers}
                      /\ \A k \in DOMAIN client.headers : k \in DOMAIN reqs'[i].headers
                 ELSE reqs'[i].auth = "basic" /\ reqs'[i].basic = client.auth

\* C11: across every operation of a constructed client, successful or failing,
\* the base URL, the version, the TLS-verification flag, the authentication
\* material and the Authorization header keep their values; the only change is
\* that a mutating v2 operation sets Content-Type and/or Cache-Control in the
\* stored header mapping; entries once set stay (a later mutating operation may
\* set Content-Type to its own value) and go out with every later v2 request.
C11_ConfigFrame == [][ConfigFrame]_vars

\* C11 witness: a get_hosts call on a client whose mapping had been given
\* Cache-Control by one mutating operation and the form Content-Type by a later
\* set_key_asset sent both entries next to the Authorization header.
C11_Witness ==
    /\ last.op = "get_hosts"
    /\ Len(reqs) = 1
    /\ DOMAIN client.headers = {"Authorization", "Content-Type", "Cache-Control"}
    /\ client.headers["Content-Type"] = "application/x-www-form-urlencoded"
    /\ client.headers["Authorization"] = <<"Token ", "tok">>
    /\ reqs[1].headers = client.headers
====
